---------------------------- MODULE Spec2Model ----------------------------
(***************************************************************************)
(* Code-Sentinel mock review API (apps/api/main.py, apps/api/config.py).   *)
(*                                                                         *)
(* One HTTP request is followed from the logging middleware through body   *)
(* parsing, CodeReviewRequest validation and the review_code handler to    *)
(* the middleware's completion record.                                     *)
(*                                                                         *)
(* Text values.  A Python str is a sequence of Unicode code points.  Text  *)
(* the program builds (the summary, the mock findings) is a sequence of    *)
(* code points.  Text submitted in a request body is kept run-length       *)
(* encoded, a sequence of <<code point, count>> runs, so that "x" * 100000 *)
(* is one run; StrLen is Python's len and Expand gives the code points.    *)
(***************************************************************************)
EXTENDS Integers, Sequences, FiniteSets, TLC

VARIABLES
    environ,      \* os.environ as read by config.py
    config,       \* the module-level Config instance (config.py:96)
    pc,           \* where the request in flight stands
    http,         \* the request in flight: method, path, body
    request,      \* the CodeReviewRequest handed to review_code
    response,     \* the response being returned / last returned
    log,          \* records written by the "code-sentinel" logger for this request
    request_id,   \* log_requests' local request_id
    start_time,   \* log_requests' local start_time
    history,      \* the accepted review requests answered so far, with their answers
    tasks,        \* the requests in flight when several are handled at a time
    stream,       \* the state of the console handler's stream, sys.stderr
    kwargs,       \* the arguments of the last direct model construction
    built         \* what that construction gave: the instance or the errors raised

vars == <<environ, config, pc, http, request, response, log, request_id, start_time,
          history, tasks, stream, kwargs, built>>

---------------------------------------------------------------------------
(* Bounds of the model *)

\* longest language string enumerated, in code points
MaxLangLen == 2
\* time.time() returns a reading in 0..MaxClock
MaxClock == 1

---------------------------------------------------------------------------
(* Text helpers *)

RECURSIVE StrLen(_)
\* len(s) of a run-length encoded str
StrLen(s) == IF s = <<>> THEN 0 ELSE s[1][2] + StrLen(Tail(s))

RECURSIVE Expand(_)
\* the code points of a run-length encoded str
Expand(s) ==
    IF s = <<>> THEN <<>>
    ELSE [i \in 1..s[1][2] |-> s[1][1]] \o Expand(Tail(s))

RECURSIVE ToDecimal(_)
\* format(n) of a non-negative int inside an f-string: decimal digits, no separators
ToDecimal(n) ==
    IF n < 10 THEN <<48 + n>>
    ELSE ToDecimal(n \div 10) \o <<48 + (n % 10)>>

\* sub occurs in s starting at index i (1-based)
OccursAt(s, sub, i) ==
    /\ i >= 1
    /\ i + Len(sub) - 1 <= Len(s)
    /\ \A k \in 1..Len(sub) : s[i + k - 1] = sub[k]

\* Python's  sub in s
Contains(s, sub) == \E i \in 1..(Len(s) + 1) : OccursAt(s, sub, i)

---------------------------------------------------------------------------
(* config.py *)

\* values of the ENVIRONMENT variable tried at start-up ("<absent>": not set)
EnvironValues == {"<absent>", "dev", "stage", "prd", "DEV", "production"}

\* class Environment(str, Enum)
Environment == {"dev", "stage", "prd"}

\* values of the API_HOST and API_PORT variables tried at start-up
HostValues == {"<absent>", "127.0.0.1"}
PortValues == {"<absent>", "9000", "abc"}

\* os.getenv("API_HOST", "0.0.0.0")
GetEnvHost(e) == IF e.API_HOST = "<absent>" THEN "0.0.0.0" ELSE e.API_HOST

\* int(os.getenv("API_PORT", "8000")); -1 stands for the ValueError of int()
GetEnvPort(e) ==
    CASE e.API_PORT = "<absent>" -> 8000
      [] e.API_PORT = "9000" -> 9000
      [] OTHER -> -1

\* os.getenv("ENVIRONMENT", "dev")
GetEnvEnvironment(e) == IF e.ENVIRONMENT = "<absent>" THEN "dev" ELSE e.ENVIRONMENT

\* Config._get_cors_origins whose last branch allows every origin
GetCorsOriginsOpenElse(environment) ==
    IF environment = "dev" THEN <<"*">>
    ELSE IF environment = "stage"
         THEN <<"https://stage.code-sentinel.com",
                "http://localhost:3000",
                "http://localhost:3001">>
         ELSE <<"*">>

\* Config._get_cors_origins
GetCorsOrigins(environment) ==
    IF environment = "dev" THEN <<"*">>
    ELSE IF environment = "stage"
         THEN <<"https://stage.code-sentinel.com",
                "http://localhost:3000",
                "http://localhost:3001">>
         ELSE <<"https://code-sentinel.com",
                "https://www.code-sentinel.com">>

\* Config._get_log_level
GetLogLevel(environment) ==
    IF environment = "dev" THEN "DEBUG"
    ELSE IF environment = "stage" THEN "INFO"
         ELSE "WARNING"

\* Config.max_code_length
max_code_length == 100000

\* Config.request_timeout
request_timeout == 30

\* no Config instance: Environment(value) or int(...) raised ValueError at import
NoConfig ==
    [environment |-> "<none>", api_host |-> "<none>", api_port |-> 0,
     cors_origins |-> <<>>, cors_credentials |-> FALSE,
     cors_methods |-> <<>>, cors_headers |-> <<>>, log_level |-> "<none>",
     max_code_length |-> 0, request_timeout |-> 0]

\* Config.__init__ comparing the lower-cased value and giving every unrecognised
\* value the settings of the last branch
NewConfigLenient(e) ==
    LET raw == GetEnvEnvironment(e)
        value == IF raw \in {"dev", "DEV"} THEN "dev"
                 ELSE IF raw = "stage" THEN "stage" ELSE "prd"
    IN  IF GetEnvPort(e) < 0 THEN NoConfig
        ELSE [environment |-> value,
              api_host |-> GetEnvHost(e),
              api_port |-> GetEnvPort(e),
              cors_origins |-> GetCorsOrigins(value),
              cors_credentials |-> TRUE,
              cors_methods |-> <<"*">>,
              cors_headers |-> <<"*">>,
              log_level |-> GetLogLevel(value),
              max_code_length |-> max_code_length,
              request_timeout |-> request_timeout]

\* Config.__init__ adding the host the server binds to to the allowed origins
NewConfigHostDependent(e) ==
    LET value == GetEnvEnvironment(e) IN
    IF value \notin Environment \/ GetEnvPort(e) < 0 THEN NoConfig
    ELSE [environment |-> value,
          api_host |-> GetEnvHost(e),
          api_port |-> GetEnvPort(e),
          cors_origins |-> IF e.API_HOST = "<absent>" \/ value = "dev"
                           THEN GetCorsOrigins(value)
                           ELSE Append(GetCorsOrigins(value), GetEnvHost(e)),
          cors_credentials |-> TRUE,
          cors_methods |-> <<"*">>,
          cors_headers |-> <<"*">>,
          log_level |-> GetLogLevel(value),
          max_code_length |-> max_code_length,
          request_timeout |-> request_timeout]

\* Config.__init__
NewConfig(e) ==
    LET value == GetEnvEnvironment(e) IN
    IF value \notin Environment \/ GetEnvPort(e) < 0 THEN NoConfig
    ELSE [environment |-> value,
          api_host |-> GetEnvHost(e),
          api_port |-> GetEnvPort(e),
          cors_origins |-> GetCorsOrigins(value),
          cors_credentials |-> TRUE,
          cors_methods |-> <<"*">>,
          cors_headers |-> <<"*">>,
          log_level |-> GetLogLevel(value),
          max_code_length |-> max_code_length,
          request_timeout |-> request_timeout]

---------------------------------------------------------------------------
(* logging *)

\* logging's numeric levels
LevelNo(name) ==
    CASE name = "DEBUG" -> 10
      [] name = "INFO" -> 20
      [] name = "WARNING" -> 30
      [] name = "ERROR" -> 40
      [] name = "CRITICAL" -> 50
      [] OTHER -> 0

\* logger.info(...) handled only above the configured level
LoggerInfoAboveLevel(lg, record) ==
    IF LevelNo("INFO") > LevelNo(config.log_level)
    THEN Append(lg, record)
    ELSE lg

\* the level names of logging
LevelNames == {"DEBUG", "INFO", "WARNING", "ERROR", "CRITICAL"}

\* IsEnabled with the console handler left at WARNING whatever the configuration
IsEnabledHandlerAtWarning(levelname) ==
    /\ LevelNo(levelname) >= LevelNo(config.log_level)
    /\ LevelNo(levelname) >= LevelNo("WARNING")

\* a record of this level passes logger.setLevel(...) and console_handler.setLevel(...),
\* both given getattr(logging, config.log_level)
IsEnabled(levelname) ==
    /\ LevelNo(levelname) >= LevelNo(config.log_level)
    /\ LevelNo(levelname) >= LevelNo(config.log_level)

\* record.getMessage(): the f-string of the call, as its pieces
GetMessage(record) ==
    CASE record.msg = "Request started" ->
           <<"Request started: ", record.method, " ", record.path>>
      [] record.msg = "Request completed" ->
           <<"Request completed: ", record.method, " ", record.path>>
      [] record.msg = "Code review requested" ->
           <<"Code review requested for ", record.language, " code">>
      [] record.msg = "Code review completed" ->
           <<"Code review completed: found ", record.smells_count, " issues">>
      [] OTHER -> <<record.msg>>

\* the extra attributes JSONFormatter.format copies when the record has them
FormattedExtras == {"request_id", "method", "path", "status_code", "duration_ms"}

\* JSONFormatter.format: the JSON object written for a record of logger.info
Format(record) ==
    [k \in {"timestamp", "level", "logger", "message", "environment"}
           \cup (DOMAIN record \cap FormattedExtras) |->
        CASE k = "timestamp" -> "<asctime>"
          [] k = "level" -> "INFO"
          [] k = "logger" -> "code-sentinel"
          [] k = "message" -> GetMessage(record)
          [] k = "environment" -> config.environment
          [] OTHER -> record[k]]

(***************************************************************************)
(* The console handler is logging.StreamHandler() on sys.stderr.  Its emit *)
(* hands any Exception of the formatting or of the write to handleError,   *)
(* which reports it on sys.stderr and lets only an OSError of that report  *)
(* pass.  stream is                                                        *)
(*   "open"    the record is written;                                      *)
(*   "broken"  the write raises OSError (EPIPE, ENOSPC): the record is     *)
(*             lost and the call returns;                                  *)
(*   "closed"  the write raises ValueError (I/O operation on closed file), *)
(*             and so does handleError's report: the ValueError leaves     *)
(*             logger.info.                                                *)
(***************************************************************************)
StreamStates == {"open", "broken", "closed"}

\* logger.<level>(...) raises: the record passes both levels and the stream is closed
EmitRaises(levelname) == IsEnabled(levelname) /\ stream = "closed"

\* logger.info(...) when it returns: a record that passes both levels is formatted
\* and written by the console handler unless the write fails
LoggerInfo(lg, record) ==
    IF IsEnabled("INFO") /\ stream = "open"
    THEN Append(lg, record)
    ELSE lg

---------------------------------------------------------------------------
(* Request bodies *)

\* the types a JSON value can have, and "absent" for a key the object lacks
JsonTypes == {"null", "number", "bool", "array", "object", "string"}

\* a JSON value; s is its text when it is a string
JsonValue(t, s) == [t |-> t, s |-> s]

Absent == JsonValue("absent", <<>>)

\* code texts submitted: the empty text, texts around both length limits of
\* CodeReviewRequest.code, and texts made of or padded with blanks
CodeTexts ==
    { <<>>, << <<120, 1>> >>, << <<32, 1>> >>, << <<32, 1>>, <<120, 1>>, <<32, 1>> >>,
      << <<120, max_code_length>> >>,
      << <<32, 1>>, <<120, max_code_length - 2>>, <<32, 1>> >>,
      << <<120, max_code_length>>, <<32, 1>> >>,
      << <<120, max_code_length + 1>> >> }

\* the code points language texts are made of: "3" and blank
LangAlphabet == {51, 32}

RECURSIVE TextsUpTo(_)
\* every text over LangAlphabet of at most n code points, one run per code point
TextsUpTo(n) ==
    IF n = 0 THEN { <<>> }
    ELSE LET shorter == TextsUpTo(n - 1) IN
         shorter \cup { Append(s, <<c, 1>>) : s \in shorter, c \in LangAlphabet }

\* the text "python", one run per code point
PythonText == << <<112, 1>>, <<121, 1>>, <<116, 1>>, <<104, 1>>, <<111, 1>>, <<110, 1>> >>

LangTexts == TextsUpTo(MaxLangLen) \cup { PythonText }

NonStrings == { JsonValue(t, <<>>) : t \in JsonTypes \ {"string"} }

CodeValues == {Absent} \cup NonStrings \cup { JsonValue("string", s) : s \in CodeTexts }

LanguageValues == {Absent} \cup NonStrings \cup { JsonValue("string", s) : s \in LangTexts }

\* a request body: bytes that are not JSON ("malformed"), JSON that is not an
\* object ("array"), no body at all ("none"), or a JSON object with its code and
\* language members and, with extra, one more member the model does not declare
Body(kind, code, language, extra) ==
    [kind |-> kind, code |-> code, language |-> language, extra |-> extra]

NoBody == Body("none", Absent, Absent, FALSE)

ReviewBodies ==
    { Body("malformed", Absent, Absent, FALSE), Body("array", Absent, Absent, FALSE) }
    \cup { Body("object", c, l, x) : c \in CodeValues, l \in LanguageValues, x \in BOOLEAN }

---------------------------------------------------------------------------
(* CodeReviewRequest *)

\* one entry of a 422 response's detail list
ErrorEntry(type, loc) == [type |-> type, loc |-> loc]

\* ValidateCode with the upper limit excluded
ValidateCodeExclusiveMax(v) ==
    IF v.t = "absent" THEN <<ErrorEntry("missing", <<"body", "code">>)>>
    ELSE IF v.t # "string" THEN <<ErrorEntry("string_type", <<"body", "code">>)>>
    ELSE IF StrLen(v.s) < 1 THEN <<ErrorEntry("string_too_short", <<"body", "code">>)>>
    ELSE IF StrLen(v.s) >= config.max_code_length
         THEN <<ErrorEntry("string_too_long", <<"body", "code">>)>>
    ELSE <<>>

\* ValidateCode with numbers and booleans taken as their text
ValidateCodeCoercing(v) ==
    IF v.t = "absent" THEN <<ErrorEntry("missing", <<"body", "code">>)>>
    ELSE IF v.t \in {"number", "bool"} THEN <<>>
    ELSE IF v.t # "string" THEN <<ErrorEntry("string_type", <<"body", "code">>)>>
    ELSE IF StrLen(v.s) < 1 THEN <<ErrorEntry("string_too_short", <<"body", "code">>)>>
    ELSE IF StrLen(v.s) > config.max_code_length
         THEN <<ErrorEntry("string_too_long", <<"body", "code">>)>>
    ELSE <<>>

\* code: str = Field(..., min_length=1, max_length=config.max_code_length)
ValidateCode(v) ==
    IF v.t = "absent" THEN <<ErrorEntry("missing", <<"body", "code">>)>>
    ELSE IF v.t # "string" THEN <<ErrorEntry("string_type", <<"body", "code">>)>>
    ELSE IF StrLen(v.s) < 1 THEN <<ErrorEntry("string_too_short", <<"body", "code">>)>>
    ELSE IF StrLen(v.s) > config.max_code_length
         THEN <<ErrorEntry("string_too_long", <<"body", "code">>)>>
    ELSE <<>>

\* ValidateLanguage with an explicit null taken as an absent language
ValidateLanguageNullable(v) ==
    IF v.t \in {"absent", "null"} THEN <<>>
    ELSE IF v.t # "string" THEN <<ErrorEntry("string_type", <<"body", "language">>)>>
    ELSE <<>>

\* ValidateLanguage with min_length=1 on language as well
ValidateLanguageNonEmpty(v) ==
    IF v.t = "absent" THEN <<>>
    ELSE IF v.t # "string" THEN <<ErrorEntry("string_type", <<"body", "language">>)>>
    ELSE IF StrLen(v.s) < 1 THEN <<ErrorEntry("string_too_short", <<"body", "language">>)>>
    ELSE <<>>

\* language: str = Field(default="python")
ValidateLanguage(v) ==
    IF v.t = "absent" THEN <<>>
    ELSE IF v.t # "string" THEN <<ErrorEntry("string_type", <<"body", "language">>)>>
    ELSE <<>>

\* the default of CodeReviewRequest.language
DefaultLanguage == PythonText

\* ValidationErrors with undeclared members forbidden
ValidationErrorsForbidExtra(body) ==
    ValidateCode(body.code) \o ValidateLanguage(body.language)
    \o (IF body.extra THEN <<ErrorEntry("extra_forbidden", <<"body", "extra_field">>)>>
        ELSE <<>>)

\* ValidationErrors stopping at the first field in error
ValidationErrorsFirstOnly(body) ==
    IF ValidateCode(body.code) # <<>> THEN ValidateCode(body.code)
    ELSE ValidateLanguage(body.language)

\* the errors of validating a JSON object against CodeReviewRequest: every field
\* is validated, in declaration order; members not declared are ignored
ValidationErrors(body) == ValidateCode(body.code) \o ValidateLanguage(body.language)

\* ParseRequest with the default applied to an empty language too
ParseRequestDefaultForEmpty(body) ==
    [code |-> body.code.s,
     language |-> IF body.language.t = "absent" \/ body.language.s = <<>>
                  THEN DefaultLanguage ELSE body.language.s]

\* the CodeReviewRequest built from a valid object
ParseRequest(body) ==
    [code |-> body.code.s,
     language |-> IF body.language.t = "absent" THEN DefaultLanguage ELSE body.language.s]

NoRequest == [code |-> <<>>, language |-> <<>>]

\* BodyErrors with an unparseable body taken as the empty object
BodyErrorsLenient(body) ==
    CASE body.kind = "none" -> <<ErrorEntry("missing", <<"body">>)>>
      [] body.kind = "array" -> <<ErrorEntry("model_attributes_type", <<"body">>)>>
      [] OTHER -> ValidationErrors(body)

\* FastAPI's handling of the body parameter request: CodeReviewRequest
BodyErrors(body) ==
    CASE body.kind = "malformed" -> <<ErrorEntry("json_invalid", <<"body", "<offset>">>)>>
      [] body.kind = "none" -> <<ErrorEntry("missing", <<"body">>)>>
      [] body.kind = "array" -> <<ErrorEntry("model_attributes_type", <<"body">>)>>
      [] OTHER -> ValidationErrors(body)

---------------------------------------------------------------------------
(* CodeSmell, CodeReviewResponse *)

\* the literals of the three mock findings, as code points
LongMethod == <<76, 111, 110, 103, 32, 77, 101, 116, 104, 111, 100>>
MagicNumber == <<77, 97, 103, 105, 99, 32, 78, 117, 109, 98, 101, 114>>
DuplicateCode == <<68, 117, 112, 108, 105, 99, 97, 116, 101, 32, 67, 111, 100, 101>>
SevLow == <<108, 111, 119>>
SevMedium == <<109, 101, 100, 105, 117, 109>>
SevHigh == <<104, 105, 103, 104>>
Message1 == <<26041, 27861, 36807, 38271, 65292, 24314, 35758, 25286, 20998>>
Suggestion1 ==
    <<23558, 27492, 26041, 27861, 25286, 20998, 20026, 22810, 20010, 23567, 26041, 27861,
      65292, 27599, 20010, 26041, 27861, 21482, 36127, 36131, 19968, 20010, 21151, 33021>>
Message2 == <<21457, 29616, 39764, 27861, 25968, 23383>>
Suggestion2 ==
    <<23558, 30828, 32534, 30721, 30340, 25968, 23383, 25552, 21462, 20026, 24120, 37327>>
Message3 == <<21457, 29616, 37325, 22797, 20195, 30721>>
Suggestion3 ==
    <<25552, 21462, 37325, 22797, 20195, 30721, 21040, 20844, 20849, 26041, 27861, 20013>>

\* CodeSmell(type=..., severity=..., line=..., message=..., suggestion=...)
CodeSmell(type, severity, line, message, suggestion) ==
    [type |-> type, severity |-> severity, line |-> line,
     message |-> message, suggestion |-> suggestion]

\* the field constraints of CodeSmell; "^(low|medium|high)$" on the three words
CodeSmellErrors(smell) ==
    (IF Len(smell.type) < 3 THEN <<ErrorEntry("string_too_short", <<"type">>)>> ELSE <<>>)
    \o (IF smell.severity \notin {SevLow, SevMedium, SevHigh}
        THEN <<ErrorEntry("string_pattern_mismatch", <<"severity">>)>> ELSE <<>>)
    \o (IF ~(smell.line > 0) THEN <<ErrorEntry("greater_than", <<"line">>)>> ELSE <<>>)
    \o (IF Len(smell.message) < 5
        THEN <<ErrorEntry("string_too_short", <<"message">>)>> ELSE <<>>)
    \o (IF Len(smell.suggestion) < 10
        THEN <<ErrorEntry("string_too_short", <<"suggestion">>)>> ELSE <<>>)

\* the field constraints of CodeReviewResponse
CodeReviewResponseErrors(smells, summary) ==
    (IF Len(smells) < 1 THEN <<ErrorEntry("too_short", <<"smells">>)>> ELSE <<>>)
    \o (IF Len(summary) < 10 THEN <<ErrorEntry("string_too_short", <<"summary">>)>> ELSE <<>>)

---------------------------------------------------------------------------
(* CodeSmell(...) and CodeReviewResponse(...) called with arbitrary arguments *)

\* Python values given as keyword arguments; "absent": the keyword is not given
PyAbsent == [t |-> "absent"]
PyNone == [t |-> "NoneType"]
PyStr(s) == [t |-> "str", v |-> s]
PyInt(n) == [t |-> "int", v |-> n]
PyList(l) == [t |-> "list", v |-> l]
PyDict(d) == [t |-> "dict", v |-> d]
PySmell(smell) == [t |-> "CodeSmell", v |-> smell]

\* "x" * n
Xs(n) == [i \in 1..n |-> 120]

\* a str field with min_length: required, no conversion to str, len() of the value
\* as given
StrFieldErrors(v, name, min_length) ==
    IF v.t = "absent" THEN <<ErrorEntry("missing", <<name>>)>>
    ELSE IF v.t # "str" THEN <<ErrorEntry("string_type", <<name>>)>>
    ELSE IF Len(v.v) < min_length THEN <<ErrorEntry("string_too_short", <<name>>)>>
    ELSE <<>>

\* "^(low|medium|high)$" matched as Python's re does: $ also before a final newline
PatternMatchesBeforeNewline(s) ==
    \/ s \in {SevLow, SevMedium, SevHigh}
    \/ /\ Len(s) >= 1
       /\ s[Len(s)] = 10
       /\ SubSeq(s, 1, Len(s) - 1) \in {SevLow, SevMedium, SevHigh}

\* "^(low|medium|high)$" as pydantic's pattern constraint matches it: ^ and $ are
\* the two ends of the value
PatternMatches(s) == s \in {SevLow, SevMedium, SevHigh}

\* CodeSmell.severity
SeverityErrors(v) ==
    IF v.t = "absent" THEN <<ErrorEntry("missing", <<"severity">>)>>
    ELSE IF v.t # "str" THEN <<ErrorEntry("string_type", <<"severity">>)>>
    ELSE IF ~PatternMatches(v.v)
         THEN <<ErrorEntry("string_pattern_mismatch", <<"severity">>)>>
    ELSE <<>>

\* s is a non-empty string of ASCII digits
IsDigits(s) == Len(s) >= 1 /\ \A i \in 1..Len(s) : s[i] \in 48..57

\* int(s) for a string of digits
RECURSIVE IntOfDigits(_)
IntOfDigits(s) ==
    IF s = <<>> THEN 0
    ELSE 10 * IntOfDigits(SubSeq(s, 1, Len(s) - 1)) + (s[Len(s)] - 48)

\* the int an argument of an int field is converted to: an int is kept, a string of
\* digits is parsed; "error" otherwise
AsInt(v) ==
    IF v.t = "int" THEN [ok |-> TRUE, v |-> v.v]
    ELSE IF v.t = "str" /\ IsDigits(v.v) THEN [ok |-> TRUE, v |-> IntOfDigits(v.v)]
    ELSE [ok |-> FALSE, v |-> 0]

\* CodeSmell.line: int, gt=0
LineErrors(v) ==
    IF v.t = "absent" THEN <<ErrorEntry("missing", <<"line">>)>>
    ELSE IF ~AsInt(v).ok
         THEN <<ErrorEntry(IF v.t = "str" THEN "int_parsing" ELSE "int_type", <<"line">>)>>
    ELSE IF ~(AsInt(v).v > 0) THEN <<ErrorEntry("greater_than", <<"line">>)>>
    ELSE <<>>

\* the errors of CodeSmell(**kw), in the order of the fields
SmellArgumentErrors(kw) ==
    StrFieldErrors(kw.type, "type", 3)
    \o SeverityErrors(kw.severity)
    \o LineErrors(kw.line)
    \o StrFieldErrors(kw.message, "message", 5)
    \o StrFieldErrors(kw.suggestion, "suggestion", 10)

\* CodeSmell(**kw): the instance, holding the values as given (line converted to
\* int), or the ValidationError
NewCodeSmell(kw) ==
    LET errors == SmellArgumentErrors(kw) IN
    IF errors = <<>>
    THEN [ok |-> TRUE,
          value |-> CodeSmell(kw.type.v, kw.severity.v, AsInt(kw.line).v,
                              kw.message.v, kw.suggestion.v)]
    ELSE [ok |-> FALSE, errors |-> errors]

\* the errors of one entry of smells: a CodeSmell instance is taken as it is, a dict
\* is validated as CodeSmell(**dict), its errors located under the entry's index
EntryErrors(entry, index) ==
    IF entry.t = "CodeSmell" THEN <<>>
    ELSE IF entry.t # "dict" THEN <<ErrorEntry("model_type", <<"smells", index>>)>>
    ELSE LET errors == SmellArgumentErrors(entry.v) IN
         [k \in 1..Len(errors) |->
            ErrorEntry(errors[k].type, <<"smells", index>> \o errors[k].loc)]

RECURSIVE EntriesErrors(_, _)
EntriesErrors(entries, n) ==
    IF n = 0 THEN <<>>
    ELSE EntriesErrors(entries, n - 1) \o EntryErrors(entries[n], n - 1)

\* CodeReviewResponse.smells: list[CodeSmell], min_length=1
SmellsErrors(v) ==
    IF v.t = "absent" THEN <<ErrorEntry("missing", <<"smells">>)>>
    ELSE IF v.t # "list" THEN <<ErrorEntry("list_type", <<"smells">>)>>
    ELSE IF Len(v.v) < 1 THEN <<ErrorEntry("too_short", <<"smells">>)>>
    ELSE EntriesErrors(v.v, Len(v.v))

\* the errors of CodeReviewResponse(**kw) with no lower limit on smells
ResponseArgumentErrorsNoMinimum(kw) ==
    StrFieldErrors(kw.status, "status", 0)
    \o (IF kw.smells.t = "list" THEN EntriesErrors(kw.smells.v, Len(kw.smells.v))
        ELSE SmellsErrors(kw.smells))
    \o StrFieldErrors(kw.summary, "summary", 10)

\* the errors of CodeReviewResponse(**kw), in the order of the fields; status is a
\* required str without constraint
ResponseArgumentErrors(kw) ==
    StrFieldErrors(kw.status, "status", 0)
    \o SmellsErrors(kw.smells)
    \o StrFieldErrors(kw.summary, "summary", 10)

\* CodeReviewResponse(**kw): the instance or the ValidationError
NewCodeReviewResponse(kw) ==
    LET errors == ResponseArgumentErrors(kw) IN
    IF errors = <<>>
    THEN [ok |-> TRUE,
          value |-> [status |-> kw.status.v,
                     smells |-> [i \in 1..Len(kw.smells.v) |->
                                   IF kw.smells.v[i].t = "CodeSmell" THEN kw.smells.v[i].v
                                   ELSE NewCodeSmell(kw.smells.v[i].v).value],
                     summary |-> kw.summary.v]]
    ELSE [ok |-> FALSE, errors |-> errors]

\* arguments tried for CodeSmell: each field absent, of another type, and around
\* its limit; blanks, capitals and a final newline for the words
SmellKwargs ==
    [model : {"CodeSmell"},
     type : {PyAbsent, PyInt(123), PyStr(<<>>), PyStr(Xs(2)), PyStr(Xs(3)),
             PyStr(<<32, 32, 32>>), PyStr(<<32, 120, 120, 32>>)},
     severity : {PyAbsent, PyNone, PyStr(SevLow), PyStr(SevMedium), PyStr(SevHigh),
                 PyStr(<<>>), PyStr(<<99, 114, 105, 116, 105, 99, 97, 108>>),
                 PyStr(<<76, 111, 119>>), PyStr(SevLow \o <<10>>),
                 PyStr(<<32>> \o SevLow)},
     line : {PyAbsent, PyNone, PyInt(-5), PyInt(0), PyInt(1), PyInt(10),
             PyStr(<<49, 48>>), PyStr(<<48>>), PyStr(<<97, 98, 99>>)},
     message : {PyAbsent, PyStr(Xs(4)), PyStr(Xs(5)), PyStr(<<32, 32, 32, 32, 32>>)},
     suggestion : {PyAbsent, PyStr(Xs(9)), PyStr(Xs(10))}]

\* a dict that is not a valid CodeSmell: line 0
BadSmellDict ==
    PyDict([type |-> PyStr(LongMethod), severity |-> PyStr(SevMedium), line |-> PyInt(0),
            message |-> PyStr(Message1), suggestion |-> PyStr(Suggestion1)])

\* a dict that is a valid CodeSmell
GoodSmellDict ==
    PyDict([type |-> PyStr(MagicNumber), severity |-> PyStr(SevLow), line |-> PyInt(15),
            message |-> PyStr(Message2), suggestion |-> PyStr(Suggestion2)])

\* arguments tried for CodeReviewResponse
ResponseKwargs ==
    [model : {"CodeReviewResponse"},
     status : {PyAbsent, PyNone, PyStr(<<>>),
               PyStr(<<115, 117, 99, 99, 101, 115, 115>>)},
     smells : {PyAbsent, PyNone, PyList(<<>>),
               PyList(<<PySmell(CodeSmell(LongMethod, SevMedium, 10, Message1, Suggestion1))>>),
               PyList(<<GoodSmellDict>>),
               PyList(<<BadSmellDict>>),
               PyList(<<PySmell(CodeSmell(LongMethod, SevMedium, 10, Message1, Suggestion1)),
                        BadSmellDict>>),
               PyList(<<PySmell(CodeSmell(LongMethod, SevMedium, 10, Message1, Suggestion1)),
                        GoodSmellDict,
                        PySmell(CodeSmell(DuplicateCode, SevHigh, 25, Message3, Suggestion3))>>)},
     summary : {PyAbsent, PyInt(1234567890), PyStr(<<>>), PyStr(Xs(9)), PyStr(Xs(10)),
                PyStr(Xs(11))}]

---------------------------------------------------------------------------
(* review_code *)

\* MockSmells with the second and third finding exchanged
MockSmellsReordered ==
    << CodeSmell(LongMethod, SevMedium, 10, Message1, Suggestion1),
       CodeSmell(DuplicateCode, SevHigh, 25, Message3, Suggestion3),
       CodeSmell(MagicNumber, SevLow, 15, Message2, Suggestion2) >>

\* mock_smells
MockSmells ==
    << CodeSmell(LongMethod, SevMedium, 10, Message1, Suggestion1),
       CodeSmell(MagicNumber, SevLow, 15, Message2, Suggestion2),
       CodeSmell(DuplicateCode, SevHigh, 25, Message3, Suggestion3) >>

\* the fixed text of the summary f-string around its three replacement fields
SummaryPart1 == <<20998, 26512, 20102, 32>>
SummaryPart2 == <<32, 20010, 23383, 31526, 30340, 32>>
SummaryPart3 == <<32, 20195, 30721, 65292, 21457, 29616, 32>>
SummaryPart4 == <<32, 20010, 28508, 22312, 38382, 39064>>

\* Summary made of the language alone
SummaryLanguageOnly(req, smells) == Expand(req.language)

\* Summary with the request's trace id embedded
SummaryWithTraceId(req, smells) ==
    SummaryPart1 \o ToDecimal(StrLen(req.code)) \o SummaryPart2 \o Expand(req.language)
    \o SummaryPart3 \o ToDecimal(Len(smells)) \o SummaryPart4 \o <<32>> \o ToDecimal(request_id)

\* Summary with the language placed before the code length
SummaryLanguageFirst(req, smells) ==
    SummaryPart1 \o Expand(req.language) \o SummaryPart2 \o ToDecimal(StrLen(req.code))
    \o SummaryPart3 \o ToDecimal(Len(smells)) \o SummaryPart4

\* the summary f-string: len(request.code), request.language, len(mock_smells)
Summary(req, smells) ==
    SummaryPart1 \o ToDecimal(StrLen(req.code)) \o SummaryPart2 \o Expand(req.language)
    \o SummaryPart3 \o ToDecimal(Len(smells)) \o SummaryPart4

\* a response: status code and JSON body
Response(status_code, body) == [status_code |-> status_code, body |-> body]

NoResponse == Response(0, [none |-> TRUE])

\* FastAPI's answer to a RequestValidationError
ValidationErrorResponse(errors) == Response(422, [detail |-> errors])

\* the answer to an exception escaping the handler
InternalErrorResponse == Response(500, [text |-> "Internal Server Error"])

\* ReviewResponse returning the first finding only when the environment is prd
ReviewResponseShortInPrd(req) ==
    LET smells == IF config.environment = "prd" THEN SubSeq(MockSmells, 1, 1)
                  ELSE MockSmells
        summary == Summary(req, smells)
    IN  Response(200, [status |-> "success", smells |-> smells, summary |-> summary])

\* the value review_code returns for a CodeReviewRequest, serialized with status 200;
\* a ValidationError raised by CodeSmell(...) or CodeReviewResponse(...) escapes
ReviewResponse(req) ==
    LET smells == MockSmells
        summary == Summary(req, smells)
        smellsOk == \A i \in 1..Len(smells) : CodeSmellErrors(smells[i]) = <<>>
    IN  IF smellsOk /\ CodeReviewResponseErrors(smells, summary) = <<>>
        THEN Response(200, [status |-> "success", smells |-> smells, summary |-> summary])
        ELSE InternalErrorResponse

---------------------------------------------------------------------------
(* The application *)

\* the requests sent: GET /, GET /health, and POST /api/review with each body
Requests ==
    { [method |-> "GET", path |-> "/", body |-> NoBody],
      [method |-> "GET", path |-> "/health", body |-> NoBody] }
    \cup { [method |-> "POST", path |-> "/api/review", body |-> b] :
             b \in ReviewBodies \cup {NoBody} }

NoHttp == [method |-> "<none>", path |-> "<none>", body |-> NoBody]

\* readings of time.time()
Clock == 0..MaxClock

\* no model has been constructed directly
NoKwargs == [model |-> "<none>"]
NotBuilt == [ok |-> FALSE, errors |-> <<>>]

\* no request in flight in a slot of tasks
IdleTask ==
    [pc |-> "idle", http |-> NoHttp, request |-> NoRequest, response |-> NoResponse,
     log |-> <<>>, request_id |-> 0, start_time |-> 0]

\* the requests that can be in flight together
Tasks == {1, 2}

\* the state after the import of config.py and main.py with os.environ = e:
\* config = Config(); a ValueError ends the process before the application exists
Started(e) ==
    /\ environ = e
    /\ config = NewConfig(environ)
    /\ pc = IF config = NoConfig THEN "boot_failed" ELSE "idle"
    /\ http = NoHttp
    /\ request = NoRequest
    /\ response = NoResponse
    /\ log = <<>>
    /\ request_id = 0
    /\ start_time = 0
    /\ history = {}
    /\ tasks = [i \in Tasks |-> IdleTask]
    /\ stream = "open"
    /\ kwargs = NoKwargs
    /\ built = NotBuilt

\* start-up with ENVIRONMENT set to each value, host and port left to their defaults
Init ==
    \E e \in [ENVIRONMENT : EnvironValues, API_HOST : {"<absent>"}, API_PORT : {"<absent>"}] :
        Started(e)

\* start-up with sys.stderr in each of its states
InitAnyStream ==
    \E e \in [ENVIRONMENT : EnvironValues, API_HOST : {"<absent>"}, API_PORT : {"<absent>"}],
       s \in StreamStates :
        /\ environ = e
        /\ config = NewConfig(environ)
        /\ pc = IF config = NoConfig THEN "boot_failed" ELSE "idle"
        /\ http = NoHttp
        /\ request = NoRequest
        /\ response = NoResponse
        /\ log = <<>>
        /\ request_id = 0
        /\ start_time = 0
        /\ history = {}
        /\ tasks = [i \in Tasks |-> IdleTask]
        /\ stream = s
        /\ kwargs = NoKwargs
        /\ built = NotBuilt

\* start-up with every combination of the three variables
InitAnyEnviron ==
    \E e \in [ENVIRONMENT : EnvironValues, API_HOST : HostValues, API_PORT : PortValues] :
        Started(e)

\* log_requests up to  await call_next(request); t1 and t2 are its two clock
\* readings (request_id keeps the reading, of which str() is a one-to-one image);
\* an exception of logger.info leaves log_requests and the request is answered 500
LogRequestsStart(r, t1, t2) ==
    /\ pc = "idle"
    /\ http' = r
    /\ request_id' = t1
    /\ start_time' = t2
    /\ request' = NoRequest
    /\ IF EmitRaises("INFO")
       THEN /\ log' = <<>>
            /\ response' = InternalErrorResponse
            /\ pc' = "failed"
       ELSE /\ log' = LoggerInfo(<<>>, [msg |-> "Request started", request_id |-> t1,
                                        method |-> r.method, path |-> r.path])
            /\ response' = NoResponse
            /\ pc' = "started"
    /\ UNCHANGED <<environ, config>>

\* GET / answering with the version next to the message
RootWithVersion ==
    /\ pc = "started"
    /\ http.method = "GET" /\ http.path = "/"
    /\ response' = Response(200, [message |-> "Code-Sentinel API is running",
                                  version |-> "1.0.0"])
    /\ pc' = "responded"
    /\ UNCHANGED <<environ, config, http, request, log, request_id, start_time>>

\* GET /
Root ==
    /\ pc = "started"
    /\ http.method = "GET" /\ http.path = "/"
    /\ response' = Response(200, [message |-> "Code-Sentinel API is running"])
    /\ pc' = "responded"
    /\ UNCHANGED <<environ, config, http, request, log, request_id, start_time>>

\* GET /health switching the process to verbose logging
HealthSettingLevel ==
    /\ pc = "started"
    /\ http.method = "GET" /\ http.path = "/health"
    /\ response' = Response(200, [status |-> "healthy"])
    /\ pc' = "responded"
    /\ config' = [config EXCEPT !.log_level = "DEBUG"]
    /\ UNCHANGED <<environ, http, request, log, request_id, start_time>>

\* GET /health
Health ==
    /\ pc = "started"
    /\ http.method = "GET" /\ http.path = "/health"
    /\ response' = Response(200, [status |-> "healthy"])
    /\ pc' = "responded"
    /\ UNCHANGED <<environ, config, http, request, log, request_id, start_time>>

\* POST /api/review, before the handler: the body is parsed and validated against
\* CodeReviewRequest; errors are answered with 422 and the handler is not called
ValidateRequest ==
    /\ pc = "started"
    /\ http.method = "POST" /\ http.path = "/api/review"
    /\ LET errors == BodyErrors(http.body) IN
       IF errors # <<>>
       THEN /\ response' = ValidationErrorResponse(errors)
            /\ request' = request
            /\ pc' = "responded"
       ELSE /\ request' = ParseRequest(http.body)
            /\ response' = response
            /\ pc' = "validated"
    /\ UNCHANGED <<environ, config, http, log, request_id, start_time>>

\* the CORS middleware installed with every origin allowed, whatever the configuration
CorsMiddlewareAnyOrigin ==
    [allow_origins |-> <<"*">>,
     allow_credentials |-> config.cors_credentials,
     allow_methods |-> config.cors_methods,
     allow_headers |-> config.cors_headers]

\* app.add_middleware(CORSMiddleware, ...): the options the middleware is installed with
CorsMiddleware ==
    [allow_origins |-> config.cors_origins,
     allow_credentials |-> config.cors_credentials,
     allow_methods |-> config.cors_methods,
     allow_headers |-> config.cors_headers]

\* review_code(request) writing its two records in the opposite order
ReviewCodeRecordsSwapped ==
    /\ pc = "validated"
    /\ LET completed == LoggerInfo(log, [msg |-> "Code review completed",
                                         language |-> request.language,
                                         smells_count |-> Len(MockSmells)])
           result == ReviewResponse(request)
       IN  /\ response' = result
           /\ log' = LoggerInfo(completed, [msg |-> "Code review requested",
                                            language |-> request.language,
                                            code_length |-> StrLen(request.code)])
           /\ pc' = IF result.status_code = 200 THEN "responded" ELSE "failed"
    /\ UNCHANGED <<environ, config, http, request, request_id, start_time>>

\* review_code(request); an exception escaping it also escapes log_requests,
\* which then writes no completion record
ReviewCode ==
    /\ pc = "validated"
    /\ LET requested == LoggerInfo(log, [msg |-> "Code review requested",
                                         language |-> request.language,
                                         code_length |-> StrLen(request.code)])
           result == ReviewResponse(request)
       IN  IF EmitRaises("INFO")
           THEN /\ response' = InternalErrorResponse
                /\ log' = log
                /\ pc' = "failed"
           ELSE /\ response' = result
                /\ IF result.status_code = 200
                   THEN /\ log' = LoggerInfo(requested,
                                             [msg |-> "Code review completed",
                                              language |-> request.language,
                                              smells_count |-> Len(MockSmells)])
                        /\ pc' = "responded"
                   ELSE /\ log' = requested
                        /\ pc' = "failed"
    /\ UNCHANGED <<environ, config, http, request, request_id, start_time>>

\* LogRequestsEnd recording status 200 whatever the response
LogRequestsEndStatusOk(t3) ==
    /\ pc = "responded"
    /\ log' = LoggerInfo(log, [msg |-> "Request completed", request_id |-> request_id,
                               method |-> http.method, path |-> http.path,
                               status_code |-> 200,
                               duration_ms |-> (t3 - start_time) * 1000])
    /\ pc' = "completed"
    /\ UNCHANGED <<environ, config, http, request, response, request_id, start_time>>

\* log_requests after  await call_next(request); t3 is its clock reading; an
\* exception of logger.info leaves log_requests before  return response, and the
\* request is answered 500 instead
LogRequestsEnd(t3) ==
    /\ pc = "responded"
    /\ IF EmitRaises("INFO")
       THEN /\ log' = log
            /\ response' = InternalErrorResponse
            /\ pc' = "failed"
       ELSE /\ log' = LoggerInfo(log, [msg |-> "Request completed",
                                       request_id |-> request_id,
                                       method |-> http.method, path |-> http.path,
                                       status_code |-> response.status_code,
                                       duration_ms |-> (t3 - start_time) * 1000])
            /\ response' = response
            /\ pc' = "completed"
    /\ UNCHANGED <<environ, config, http, request, request_id, start_time>>

\* log_requests'  return response  (or the exception leaving it): the response
\* leaves the application and the locals of this request are gone; only config
\* outlives a request
ReturnResponse ==
    /\ pc \in {"completed", "failed"}
    /\ pc' = "idle"
    /\ http' = NoHttp
    /\ request' = NoRequest
    /\ response' = NoResponse
    /\ log' = <<>>
    /\ request_id' = 0
    /\ start_time' = 0
    /\ UNCHANGED <<environ, config>>

\* one request at a time, every request of Requests
Next ==
    \/ /\ \E r \in Requests, t1, t2 \in Clock : LogRequestsStart(r, t1, t2)
       /\ UNCHANGED <<history, tasks, stream, kwargs, built>>
    \/ Root /\ UNCHANGED <<history, tasks, stream, kwargs, built>>
    \/ Health /\ UNCHANGED <<history, tasks, stream, kwargs, built>>
    \/ ValidateRequest /\ UNCHANGED <<history, tasks, stream, kwargs, built>>
    \/ ReviewCode /\ UNCHANGED <<history, tasks, stream, kwargs, built>>
    \/ /\ \E t3 \in Clock : LogRequestsEnd(t3)
       /\ UNCHANGED <<history, tasks, stream, kwargs, built>>
    \/ ReturnResponse /\ UNCHANGED <<history, tasks, stream, kwargs, built>>

Spec == Init /\ [][Next]_vars

\* a few requests of each outcome, for runs in which many requests follow one another
HistoryRequests ==
    { [method |-> "GET", path |-> "/", body |-> NoBody],
      [method |-> "GET", path |-> "/health", body |-> NoBody] }
    \cup { [method |-> "POST", path |-> "/api/review", body |-> b] :
             b \in { Body("object", JsonValue("string", << <<120, 1>> >>), Absent, FALSE),
                     Body("object", JsonValue("string", << <<120, 1>> >>),
                          JsonValue("string", PythonText), TRUE),
                     Body("object", JsonValue("string", << <<120, 1>> >>),
                          JsonValue("string", << <<51, 1>> >>), FALSE),
                     Body("object", JsonValue("string", << <<120, max_code_length>> >>),
                          Absent, FALSE),
                     Body("object", JsonValue("string", <<>>), Absent, FALSE),
                     Body("malformed", Absent, Absent, FALSE) } }

\* the answers that have left the application, the one being returned included:
\* for each review answer its status, the request the handler was given and the
\* findings and summary returned (none for a rejected request)
WithAnswer(h) ==
    IF http.path # "/api/review" THEN h
    ELSE IF response.status_code = 200
         THEN h \cup { [status |-> 200, request |-> request,
                        smells |-> response.body.smells,
                        summary |-> response.body.summary] }
         ELSE h \cup { [status |-> response.status_code, request |-> NoRequest,
                        smells |-> <<>>, summary |-> <<>>] }

\* one request at a time, the answers returned being kept
NextHistory ==
    \/ /\ \E r \in HistoryRequests, t1, t2 \in Clock : LogRequestsStart(r, t1, t2)
       /\ UNCHANGED <<history, tasks, stream, kwargs, built>>
    \/ Root /\ UNCHANGED <<history, tasks, stream, kwargs, built>>
    \/ Health /\ UNCHANGED <<history, tasks, stream, kwargs, built>>
    \/ ValidateRequest /\ UNCHANGED <<history, tasks, stream, kwargs, built>>
    \/ ReviewCode /\ UNCHANGED <<history, tasks, stream, kwargs, built>>
    \/ /\ \E t3 \in Clock : LogRequestsEnd(t3)
       /\ UNCHANGED <<history, tasks, stream, kwargs, built>>
    \/ ReturnResponse /\ history' = WithAnswer(history)
       /\ UNCHANGED <<tasks, stream, kwargs, built>>

SpecHistory == InitAnyEnviron /\ [][NextHistory]_vars

\* every request, one at a time, whatever the state of the handler's stream
SpecStream == InitAnyStream /\ [][Next]_vars

\* the event loop runs every ready step: a request that has started is handled
\* and its response returned
SpecFair == Spec /\ WF_vars(Next)

\* CodeSmell(**kw) called directly, as the tests do
ConstructCodeSmell(kw) ==
    /\ pc = "idle"
    /\ kwargs = NoKwargs
    /\ kwargs' = kw
    /\ built' = NewCodeSmell(kw)
    /\ UNCHANGED <<environ, config, pc, http, request, response, log, request_id,
                   start_time, history, tasks, stream>>

\* CodeReviewResponse(**kw) called directly, as the tests do
ConstructCodeReviewResponse(kw) ==
    /\ pc = "idle"
    /\ kwargs = NoKwargs
    /\ kwargs' = kw
    /\ built' = NewCodeReviewResponse(kw)
    /\ UNCHANGED <<environ, config, pc, http, request, response, log, request_id,
                   start_time, history, tasks, stream>>

\* one of the two response models constructed in a fresh process, with each of
\* the arguments
NextModels ==
    \/ /\ kwargs = NoKwargs
       /\ \E kw \in SmellKwargs : ConstructCodeSmell(kw)
    \/ /\ kwargs = NoKwargs
       /\ \E kw \in ResponseKwargs : ConstructCodeReviewResponse(kw)

SpecModels == Init /\ [][NextModels]_vars

---------------------------------------------------------------------------
(* Several requests in flight *)

(***************************************************************************)
(* The event loop runs one coroutine until it awaits; log_requests awaits  *)
(* call_next, so the handling of two requests interleaves between the      *)
(* steps below.  Each slot of tasks holds the locals of one request's      *)
(* handling and the records that handling wrote.                           *)
(***************************************************************************)

\* the requests sent while another may be in flight
ConcurrentRequests ==
    { [method |-> "GET", path |-> "/", body |-> NoBody],
      [method |-> "GET", path |-> "/health", body |-> NoBody] }
    \cup { [method |-> "POST", path |-> "/api/review", body |-> b] :
             b \in { Body("object", JsonValue("string", << <<120, 1>> >>), Absent, FALSE),
                     Body("object", JsonValue("string", << <<120, max_code_length>> >>),
                          JsonValue("string", << <<51, 1>> >>), FALSE),
                     Body("object", JsonValue("string", <<>>), Absent, FALSE) } }

\* the variables of the one-request-at-a-time runs
Sequential ==
    <<pc, http, request, response, log, request_id, start_time, history,
      stream, kwargs, built>>

\* HandlerArgument taken from a place shared by the tasks: the request another
\* task has just validated, when there is one
HandlerArgumentShared(i) ==
    LET others == { j \in Tasks : j # i /\ tasks[j].pc = "validated" } IN
    IF others = {} THEN tasks[i].request
    ELSE tasks[CHOOSE j \in others : TRUE].request

\* the request argument review_code is called with for task i
HandlerArgument(i) == tasks[i].request

\* LogRequestsStart for task i
TaskStart(i, r, t1, t2) ==
    /\ pc = "idle"
    /\ tasks[i].pc = "idle"
    /\ tasks' = [tasks EXCEPT ![i] =
                   IF EmitRaises("INFO")
                   THEN [pc |-> "failed", http |-> r, request |-> NoRequest,
                         response |-> InternalErrorResponse, log |-> <<>>,
                         request_id |-> t1, start_time |-> t2]
                   ELSE [pc |-> "started", http |-> r, request |-> NoRequest,
                         response |-> NoResponse,
                         log |-> LoggerInfo(<<>>, [msg |-> "Request started",
                                                   request_id |-> t1,
                                                   method |-> r.method,
                                                   path |-> r.path]),
                         request_id |-> t1, start_time |-> t2]]
    /\ UNCHANGED <<environ, config>>

\* Root for task i
TaskRoot(i) ==
    /\ tasks[i].pc = "started"
    /\ tasks[i].http.method = "GET" /\ tasks[i].http.path = "/"
    /\ tasks' = [tasks EXCEPT
                   ![i].response = Response(200, [message |-> "Code-Sentinel API is running"]),
                   ![i].pc = "responded"]
    /\ UNCHANGED <<environ, config>>

\* Health for task i
TaskHealth(i) ==
    /\ tasks[i].pc = "started"
    /\ tasks[i].http.method = "GET" /\ tasks[i].http.path = "/health"
    /\ tasks' = [tasks EXCEPT ![i].response = Response(200, [status |-> "healthy"]),
                              ![i].pc = "responded"]
    /\ UNCHANGED <<environ, config>>

\* ValidateRequest for task i
TaskValidate(i) ==
    /\ tasks[i].pc = "started"
    /\ tasks[i].http.method = "POST" /\ tasks[i].http.path = "/api/review"
    /\ LET errors == BodyErrors(tasks[i].http.body) IN
       IF errors # <<>>
       THEN tasks' = [tasks EXCEPT ![i].response = ValidationErrorResponse(errors),
                                   ![i].pc = "responded"]
       ELSE tasks' = [tasks EXCEPT ![i].request = ParseRequest(tasks[i].http.body),
                                   ![i].pc = "validated"]
    /\ UNCHANGED <<environ, config>>

\* ReviewCode for task i
TaskReview(i) ==
    /\ tasks[i].pc = "validated"
    /\ LET req == HandlerArgument(i)
           requested == LoggerInfo(tasks[i].log, [msg |-> "Code review requested",
                                                  language |-> req.language,
                                                  code_length |-> StrLen(req.code)])
           result == ReviewResponse(req)
       IN  IF EmitRaises("INFO")
           THEN tasks' = [tasks EXCEPT ![i].response = InternalErrorResponse,
                                       ![i].pc = "failed"]
           ELSE IF result.status_code = 200
           THEN tasks' = [tasks EXCEPT
                            ![i].response = result,
                            ![i].log = LoggerInfo(requested,
                                                  [msg |-> "Code review completed",
                                                   language |-> req.language,
                                                   smells_count |-> Len(MockSmells)]),
                            ![i].pc = "responded"]
           ELSE tasks' = [tasks EXCEPT ![i].response = result,
                                       ![i].log = requested,
                                       ![i].pc = "failed"]
    /\ UNCHANGED <<environ, config>>

\* LogRequestsEnd for task i
TaskEnd(i, t3) ==
    /\ tasks[i].pc = "responded"
    /\ tasks' = IF EmitRaises("INFO")
                THEN [tasks EXCEPT ![i].response = InternalErrorResponse,
                                   ![i].pc = "failed"]
                ELSE
                [tasks EXCEPT
                   ![i].log = LoggerInfo(tasks[i].log,
                                         [msg |-> "Request completed",
                                          request_id |-> tasks[i].request_id,
                                          method |-> tasks[i].http.method,
                                          path |-> tasks[i].http.path,
                                          status_code |-> tasks[i].response.status_code,
                                          duration_ms |-> (t3 - tasks[i].start_time) * 1000]),
                   ![i].pc = "completed"]
    /\ UNCHANGED <<environ, config>>

\* ReturnResponse for task i
TaskReturn(i) ==
    /\ tasks[i].pc \in {"completed", "failed"}
    /\ tasks' = [tasks EXCEPT ![i] = IdleTask]
    /\ UNCHANGED <<environ, config>>

\* the requests of ConcurrentRequests, up to one per task in flight
NextConcurrent ==
    \/ /\ \E i \in Tasks, r \in ConcurrentRequests, t1, t2 \in Clock : TaskStart(i, r, t1, t2)
       /\ UNCHANGED Sequential
    \/ (\E i \in Tasks : TaskRoot(i)) /\ UNCHANGED Sequential
    \/ (\E i \in Tasks : TaskHealth(i)) /\ UNCHANGED Sequential
    \/ (\E i \in Tasks : TaskValidate(i)) /\ UNCHANGED Sequential
    \/ (\E i \in Tasks : TaskReview(i)) /\ UNCHANGED Sequential
    \/ (\E i \in Tasks, t3 \in Clock : TaskEnd(i, t3)) /\ UNCHANGED Sequential
    \/ (\E i \in Tasks : TaskReturn(i)) /\ UNCHANGED Sequential

SpecConcurrent == Init /\ [][NextConcurrent]_vars

---------------------------------------------------------------------------
(* Properties of POST /api/review *)

\* the request in flight is a POST /api/review whose response is decided
ReviewAnswered ==
    /\ pc \in {"responded", "completed"}
    /\ http.method = "POST" /\ http.path = "/api/review"

\* the request in flight carried a JSON object
ObjectBody == http.body.kind = "object"

\* the submitted code is a string of 1..100000 code points
CodeInRange(v) ==
    /\ v.t = "string"
    /\ StrLen(v.s) >= 1
    /\ StrLen(v.s) <= 100000

\* the submitted language is absent or a string
LanguageAcceptable(v) == v.t \in {"absent", "string"}

\* the code points of the language the summary must name
LanguageUsed(v) == IF v.t = "absent" THEN <<112, 121, 116, 104, 111, 110>> ELSE Expand(v.s)

\* some entry of a detail list names the field in its location
Mentions(detail, fieldName) ==
    \E i \in 1..Len(detail) : \E k \in 1..Len(detail[i].loc) : detail[i].loc[k] = fieldName

\* C1: every POST /api/review whose code is a string of length 1..100000 and whose
\* language is absent or any string (the empty one included) is answered with
\* status 200, body status "success" and exactly 3 smells; it never fails.
C1_ValidRequestSucceeds ==
    (/\ http.method = "POST" /\ http.path = "/api/review"
     /\ ObjectBody
     /\ CodeInRange(http.body.code)
     /\ LanguageAcceptable(http.body.language))
    => /\ pc # "failed"
       /\ pc \in {"responded", "completed"} =>
            /\ response.status_code = 200
            /\ response.body.status = "success"
            /\ Len(response.body.smells) = 3

\* a 100000-character code with an empty language has been answered with 200
C1_Witness ==
    /\ ReviewAnswered /\ ObjectBody
    /\ http.body.code.t = "string" /\ StrLen(http.body.code.s) = 100000
    /\ http.body.language = JsonValue("string", <<>>)
    /\ response.status_code = 200
    /\ Len(response.body.smells) = 3

\* kind, severity and line of a finding
Finding(smell) == <<smell.type, smell.severity, smell.line>>

\* C2: every accepted review request gets, in this order, (Long Method, medium, 10),
\* (Magic Number, low, 15), (Duplicate Code, high, 25), whatever its code and language.
C2_FixedFindings ==
    (ReviewAnswered /\ response.status_code = 200)
    => /\ Len(response.body.smells) = 3
       /\ Finding(response.body.smells[1])
            = << <<76, 111, 110, 103, 32, 77, 101, 116, 104, 111, 100>>,
                 <<109, 101, 100, 105, 117, 109>>, 10 >>
       /\ Finding(response.body.smells[2])
            = << <<77, 97, 103, 105, 99, 32, 78, 117, 109, 98, 101, 114>>,
                 <<108, 111, 119>>, 15 >>
       /\ Finding(response.body.smells[3])
            = << <<68, 117, 112, 108, 105, 99, 97, 116, 101, 32, 67, 111, 100, 101>>,
                 <<104, 105, 103, 104>>, 25 >>

\* a request with a blank-padded code and the language "3" has been accepted
C2_Witness ==
    /\ ReviewAnswered /\ response.status_code = 200
    /\ http.body.code = JsonValue("string", << <<32, 1>>, <<120, 1>>, <<32, 1>> >>)
    /\ http.body.language = JsonValue("string", << <<51, 1>> >>)
    /\ Finding(response.body.smells[3])[3] = 25

\* the decimal digits of the code lengths an accepted request can have here
Digits(n) ==
    CASE n = 1 -> <<49>>
      [] n = 3 -> <<51>>
      [] n = 100000 -> <<49, 48, 48, 48, 48, 48>>

\* a, b and c occur in s one after the other, without overlap
ContainsInOrder(s, a, b, c) ==
    \E i \in 1..(Len(s) + 1) :
       /\ OccursAt(s, a, i)
       /\ \E j \in (i + Len(a))..(Len(s) + 1) :
            /\ OccursAt(s, b, j)
            /\ \E k \in (j + Len(b))..(Len(s) + 1) : OccursAt(s, c, k)

\* C3: the summary of every accepted review request contains, in this order, the
\* decimal length of the submitted code (no separators), the language used
\* ("python" when absent, nothing when sent empty) and the finding count "3".
C3_SummaryContents ==
    (ReviewAnswered /\ response.status_code = 200)
    => ContainsInOrder(response.body.summary,
                       Digits(StrLen(http.body.code.s)),
                       LanguageUsed(http.body.language),
                       <<51>>)

\* a 100000-character code without a language got a summary naming "100000" and "python"
C3_Witness ==
    /\ ReviewAnswered /\ response.status_code = 200
    /\ StrLen(http.body.code.s) = 100000
    /\ http.body.language.t = "absent"
    /\ Contains(response.body.summary, <<49, 48, 48, 48, 48, 48>>)
    /\ Contains(response.body.summary, <<112, 121, 116, 104, 111, 110>>)

\* C4: a string-typed code is accepted iff its length n, counted on the value as
\* submitted, satisfies 1 <= n <= 100000: otherwise the answer is 422, and with an
\* acceptable language the answer is 200 exactly for those lengths.
C4_CodeLengthBounds ==
    (ReviewAnswered /\ ObjectBody /\ http.body.code.t = "string")
    => LET n == StrLen(http.body.code.s) IN
       /\ response.status_code \in {200, 422}
       /\ response.status_code = 200 => (1 <= n /\ n <= 100000)
       /\ LanguageAcceptable(http.body.language) =>
            (response.status_code = 200 <=> (1 <= n /\ n <= 100000))

\* both limits are met from both sides, and a single blank counts as length 1
C4_Witness ==
    /\ ReviewAnswered /\ ObjectBody /\ http.body.language.t = "absent"
    /\ \/ http.body.code = JsonValue("string", << <<120, 100001>> >>)
            /\ response.status_code = 422
       \/ http.body.code = JsonValue("string", << <<32, 1>> >>)
            /\ response.status_code = 200

\* the submitted code is absent, not a string, empty or longer than 100000
CodeRejectable(v) ==
    \/ v.t # "string"
    \/ StrLen(v.s) = 0
    \/ StrLen(v.s) > 100000

\* C5: a review request (a JSON object) whose code is absent, not a string (number,
\* boolean, list, mapping, null), empty or longer than 100000 is answered with 422
\* and an error list with an entry that references the field code.
C5_InvalidCodeRejected ==
    (ReviewAnswered /\ ObjectBody /\ CodeRejectable(http.body.code))
    => /\ response.status_code = 422
       /\ Mentions(response.body.detail, "code")

\* a numeric code with a valid language has been answered with 422 naming code
C5_Witness ==
    /\ ReviewAnswered /\ ObjectBody
    /\ http.body.code.t = "number"
    /\ http.body.language.t = "string"
    /\ response.status_code = 422
    /\ Mentions(response.body.detail, "code")

PythonPoints == <<112, 121, 116, 104, 111, 110>>

\* the body in flight with its language member replaced
WithLanguage(v) == [http.body EXCEPT !.language = v]

\* C7: with language absent the handler is given language "python", with language
\* sent as the empty string it is given the empty string; the summaries of the two
\* cases differ (only the former names "python").
C7_DefaultVersusEmpty ==
    /\ (pc = "validated" /\ http.body.language.t = "absent")
       => request.language = PythonText
    /\ (pc = "validated" /\ http.body.language = JsonValue("string", <<>>))
       => request.language = <<>>
    /\ (ReviewAnswered /\ response.status_code = 200 /\ http.body.language.t = "absent")
       => /\ Contains(response.body.summary, PythonPoints)
          /\ response.body.summary
               # ReviewResponse(ParseRequest(WithLanguage(JsonValue("string", <<>>)))).body.summary
    /\ (ReviewAnswered /\ response.status_code = 200
        /\ http.body.language = JsonValue("string", <<>>))
       => /\ ~Contains(response.body.summary, PythonPoints)
          /\ response.body.summary
               # ReviewResponse(ParseRequest(WithLanguage(Absent))).body.summary

\* a request with the empty language has been accepted with a summary without "python"
C7_Witness ==
    /\ ReviewAnswered /\ response.status_code = 200
    /\ http.body.language = JsonValue("string", <<>>)
    /\ request.language = <<>>
    /\ ~Contains(response.body.summary, PythonPoints)

\* the answer to a review body: 422 with its errors, else the handler's response
Outcome(body) ==
    LET errors == BodyErrors(body) IN
    IF errors # <<>> THEN ValidationErrorResponse(errors)
    ELSE ReviewResponse(ParseRequest(body))

\* C8: an undeclared extra member is ignored, never rejected: the request is answered
\* exactly as the same request without it, and with 200 when code and language are valid.
C8_ExtraFieldsIgnored ==
    (ReviewAnswered /\ ObjectBody /\ http.body.extra)
    => /\ response = Outcome([http.body EXCEPT !.extra = FALSE])
       /\ (CodeInRange(http.body.code) /\ LanguageAcceptable(http.body.language))
            => response.status_code = 200

\* a valid request carrying an extra member has been answered with 200
C8_Witness ==
    /\ ReviewAnswered /\ ObjectBody /\ http.body.extra
    /\ CodeInRange(http.body.code)
    /\ http.body.language = JsonValue("string", PythonText)
    /\ response.status_code = 200

\* the submitted language is present and not a string
LanguageRejectable(v) == v.t \in {"null", "number", "bool", "array", "object"}

\* the number of entries of a detail list that name the field
EntriesFor(detail, fieldName) ==
    Cardinality({ i \in 1..Len(detail) :
                    \E k \in 1..Len(detail[i].loc) : detail[i].loc[k] = fieldName })

\* C9: the fields are validated independently and every violation is reported: a 422
\* answer to a JSON object carries exactly one entry per violated field, so one for
\* code and one for language when both are invalid, not only the first found.
C9_AllViolationsReported ==
    (ReviewAnswered /\ ObjectBody)
    => LET codeBad == CodeRejectable(http.body.code)
           languageBad == LanguageRejectable(http.body.language)
       IN  /\ (codeBad \/ languageBad) <=> response.status_code = 422
           /\ response.status_code = 422 =>
                /\ EntriesFor(response.body.detail, "code") = (IF codeBad THEN 1 ELSE 0)
                /\ EntriesFor(response.body.detail, "language")
                     = (IF languageBad THEN 1 ELSE 0)
                /\ Len(response.body.detail)
                     = (IF codeBad THEN 1 ELSE 0) + (IF languageBad THEN 1 ELSE 0)

\* an empty code with a numeric language has been answered with two entries
C9_Witness ==
    /\ ReviewAnswered /\ ObjectBody
    /\ http.body.code = JsonValue("string", <<>>)
    /\ http.body.language.t = "number"
    /\ response.status_code = 422
    /\ Len(response.body.detail) = 2

\* C10: a body that is not JSON at all is rejected with a 4xx status (400 or 422,
\* never 5xx) and never reaches the handler; its error is of a class of its own,
\* with no entry for the fields code or language.
C10_MalformedBodyRejected ==
    (http.method = "POST" /\ http.path = "/api/review" /\ http.body.kind = "malformed")
    => /\ pc \notin {"validated", "failed"}
       /\ pc \in {"responded", "completed"} =>
            /\ response.status_code \in {400, 422}
            /\ Len(response.body.detail) >= 1
            /\ ~Mentions(response.body.detail, "code")
            /\ ~Mentions(response.body.detail, "language")
            /\ \A i \in 1..Len(response.body.detail) :
                 response.body.detail[i].type
                   \notin {"missing", "string_type", "string_too_short", "string_too_long"}

\* a malformed body has been answered
C10_Witness ==
    /\ ReviewAnswered
    /\ http.body.kind = "malformed"
    /\ response.status_code = 422
    /\ ~Mentions(response.body.detail, "code")

---------------------------------------------------------------------------
(* Properties of the request lifecycle and its records *)

\* the positions of the records of lg with the given message
RecordsNamed(lg, m) == { i \in 1..Len(lg) : lg[i].msg = m }

\* the handler's two records are absent from lg
NoReviewRecords(lg) ==
    /\ RecordsNamed(lg, "Code review requested") = {}
    /\ RecordsNamed(lg, "Code review completed") = {}

\* lg ends with a completion record carrying the status
EndsWithCompletion(lg, status) ==
    /\ Len(lg) >= 1
    /\ lg[Len(lg)].msg = "Request completed"
    /\ lg[Len(lg)].status_code = status

\* C11 as stated: a request answered with 422 never ran the handler (no review
\* record) and its lifecycle ends with a completion record of status 422, in every
\* environment.
C11_AsStated ==
    (pc = "completed" /\ response.status_code = 422)
    => /\ NoReviewRecords(log)
       /\ EndsWithCompletion(log, 422)

\* C11 amended: a request answered with 422 never reached the handler (no parsed
\* request, no review record); in dev and stage its lifecycle ends with a completion
\* record of status 422, in prd (level WARNING) it leaves no record at all.
C11_RejectedBeforeHandler ==
    (pc \in {"responded", "completed"} /\ response.status_code = 422)
    => /\ request = NoRequest
       /\ NoReviewRecords(log)
       /\ (pc = "completed" /\ config.environment \in {"dev", "stage"})
            => EndsWithCompletion(log, 422)
       /\ config.environment = "prd" => log = <<>>

\* in stage a request with an empty code has completed with its 422 recorded
C11_Witness ==
    /\ pc = "completed"
    /\ config.environment = "stage"
    /\ http.body.code = JsonValue("string", <<>>)
    /\ response.status_code = 422
    /\ EndsWithCompletion(log, 422)
    /\ NoReviewRecords(log)

\* C12: the handler is deterministic and independent of history: after any earlier
\* requests, accepted or rejected, an accepted request gets the findings and the
\* summary that every earlier request with the same code and language got.
C12_HistoryIndependent ==
    /\ \A h1, h2 \in history :
         (h1.status = 200 /\ h2.status = 200 /\ h1.request = h2.request) => h1 = h2
    /\ (pc \in {"responded", "completed"} /\ http.path = "/api/review"
        /\ response.status_code = 200)
       => \A h \in history :
            (h.status = 200 /\ h.request = request)
            => /\ h.smells = response.body.smells
               /\ h.summary = response.body.summary

\* after a rejected request and an accepted one with another language, a request
\* is answered that repeats the code and language of an earlier one
C12_Witness ==
    /\ pc = "completed" /\ http.path = "/api/review" /\ response.status_code = 200
    /\ \E h \in history : h.status = 422
    /\ \E h \in history : h.status = 200 /\ h.request # request
    /\ \E h \in history : h.status = 200 /\ h.request = request
                          /\ h.summary = response.body.summary

\* C13: under any interleaving of requests handled together, each review request
\* is given its own parsed request and gets the answer (status, findings, summary)
\* it gets when handled alone; nothing of another request's handling enters it.
C13_NoInterference ==
    \A i \in Tasks :
       LET task == tasks[i] IN
       (task.http.method = "POST" /\ task.http.path = "/api/review")
       => /\ task.pc \in {"started", "responded", "completed"} =>
               task.request \in {NoRequest, ParseRequest(task.http.body)}
          /\ task.pc = "validated" => task.request = ParseRequest(task.http.body)
          /\ task.pc \in {"responded", "completed"} =>
               task.response = Outcome(task.http.body)
          /\ task.pc # "failed"

\* two different review requests are in flight together, one answered while the
\* other is validated and waits for the handler
C13_Witness ==
    /\ tasks[1].pc = "responded" /\ tasks[1].response.status_code = 200
    /\ tasks[2].pc = "validated"
    /\ tasks[1].http.body # tasks[2].http.body
    /\ tasks[1].response = Outcome(tasks[1].http.body)
    /\ tasks[1].response # Outcome(tasks[2].http.body)

---------------------------------------------------------------------------
(* Properties of the configuration and of the two fixed endpoints *)

\* the elements of a list
Elements(s) == { s[i] : i \in 1..Len(s) }

\* the list has no element twice
NoRepeats(s) == Cardinality(Elements(s)) = Len(s)

\* C14: the configuration of a started process is exactly that of its environment:
\* dev allows ["*"] at DEBUG; stage allows exactly its three origins at INFO; prd
\* allows exactly its two origins at WARNING, the wildcard not among them; there is
\* no fourth environment.
C14_MappingExact ==
    config # NoConfig
    => /\ config.environment \in {"dev", "stage", "prd"}
       /\ config.environment = "dev"
            => /\ config.cors_origins = <<"*">>
               /\ config.log_level = "DEBUG"
       /\ config.environment = "stage"
            => /\ Elements(config.cors_origins) = {"https://stage.code-sentinel.com",
                                                   "http://localhost:3000",
                                                   "http://localhost:3001"}
               /\ NoRepeats(config.cors_origins)
               /\ config.log_level = "INFO"
       /\ config.environment = "prd"
            => /\ Elements(config.cors_origins) = {"https://code-sentinel.com",
                                                   "https://www.code-sentinel.com"}
               /\ NoRepeats(config.cors_origins)
               /\ "*" \notin Elements(config.cors_origins)
               /\ config.log_level = "WARNING"

\* a process started in prd has served a request
C14_Witness ==
    /\ environ.ENVIRONMENT = "prd"
    /\ config.environment = "prd"
    /\ Len(config.cors_origins) = 2
    /\ pc = "completed"

\* C15: with ENVIRONMENT absent (and a usable port) the environment is dev; with
\* ENVIRONMENT set to anything but exactly dev, stage or prd there is no Config, the
\* process has not started and serves nothing; a Config that exists has the
\* environment the variable names.
C15_ResolveOrFail ==
    /\ (environ.ENVIRONMENT = "<absent>" /\ GetEnvPort(environ) >= 0)
         => config.environment = "dev"
    /\ environ.ENVIRONMENT \notin {"<absent>", "dev", "stage", "prd"}
         => /\ config = NoConfig
            /\ pc = "boot_failed"
            /\ http = NoHttp /\ response = NoResponse /\ log = <<>>
    /\ (config # NoConfig /\ environ.ENVIRONMENT # "<absent>")
         => config.environment = environ.ENVIRONMENT

\* ENVIRONMENT=DEV: construction raised and the process did not start
C15_Witness ==
    /\ environ.ENVIRONMENT = "DEV"
    /\ config = NoConfig
    /\ pc = "boot_failed"

\* start-ups that construct a Config
Constructing ==
    { e \in [ENVIRONMENT : EnvironValues, API_HOST : HostValues, API_PORT : PortValues] :
        NewConfig(e) # NoConfig }

\* C16: the allowed origins and the log level of a Config are determined by its
\* environment alone: any start-up with the same environment, whatever API_HOST and
\* API_PORT, constructs the same two fields; and max_code_length is 100000 and
\* request_timeout 30 in each of the three environments.
C16_DerivedFromEnvironment ==
    config # NoConfig
    => /\ \A e \in Constructing :
            NewConfig(e).environment = config.environment
            => /\ NewConfig(e).cors_origins = config.cors_origins
               /\ NewConfig(e).log_level = config.log_level
       /\ config.max_code_length = 100000
       /\ config.request_timeout = 30

\* a process started in stage with both API_HOST and API_PORT set, whose fields
\* equal those of a start-up with neither set
C16_Witness ==
    /\ config.environment = "stage"
    /\ environ.API_HOST = "127.0.0.1" /\ environ.API_PORT = "9000"
    /\ config.api_port = 9000
    /\ config.log_level = "INFO"
    /\ config.cors_origins =
         NewConfig([ENVIRONMENT |-> "stage", API_HOST |-> "<absent>",
                    API_PORT |-> "<absent>"]).cors_origins
    /\ pc = "completed"

\* C17: config is written at start-up, before any request, and no step of any
\* request (GET /, GET /health, POST /api/review accepted or rejected) changes any
\* of its fields.
C17_ConfigNeverMutated ==
    /\ [](config = NewConfig(environ))
    /\ [][config' = config]_vars

\* after accepted and rejected reviews a health check has completed and config is
\* what start-up made it
C17_Witness ==
    /\ pc = "completed" /\ http.path = "/health"
    /\ \E h \in history : h.status = 200
    /\ \E h \in history : h.status = 422
    /\ config # NoConfig
    /\ config = NewConfig(environ)

\* C18: GET / is answered 200 with exactly {"message": "Code-Sentinel API is
\* running"} and GET /health 200 with exactly {"status": "healthy"}, in every
\* environment and after any earlier requests.
C18_FixedEndpoints ==
    (pc \in {"responded", "completed"} /\ http.method = "GET")
    => /\ response.status_code = 200
       /\ http.path = "/"
            => /\ DOMAIN response.body = {"message"}
               /\ response.body.message = "Code-Sentinel API is running"
       /\ http.path = "/health"
            => /\ DOMAIN response.body = {"status"}
               /\ response.body.status = "healthy"

\* in prd, after an accepted and a rejected review, GET / has been answered
C18_Witness ==
    /\ config.environment = "prd"
    /\ pc = "completed" /\ http.method = "GET" /\ http.path = "/"
    /\ \E h \in history : h.status = 200
    /\ \E h \in history : h.status = 422
    /\ response.body = [message |-> "Code-Sentinel API is running"]

---------------------------------------------------------------------------
(* Properties of the records of a request *)

\* the messages of the records of lg, in order
Msgs(lg) == [i \in 1..Len(lg) |-> lg[i].msg]

\* rec is the start record of the request in hand
IsStartRecord(rec) ==
    rec = [msg |-> "Request started", request_id |-> request_id,
           method |-> http.method, path |-> http.path]

\* rec is the end record of the request in hand: same trace id, method and path,
\* the status of the response and a duration
IsEndRecord(rec) ==
    /\ rec.msg = "Request completed"
    /\ DOMAIN rec = {"msg", "request_id", "method", "path", "status_code", "duration_ms"}
    /\ rec.request_id = request_id
    /\ rec.method = http.method /\ rec.path = http.path
    /\ rec.status_code = response.status_code
    /\ \E t \in Clock : rec.duration_ms = (t - start_time) * 1000

\* one start record, first, while the request is handled; then one end record, last
StartThenEnd ==
    /\ pc \in {"started", "validated", "responded"}
         => /\ Cardinality(RecordsNamed(log, "Request started")) = 1
            /\ IsStartRecord(log[1])
            /\ RecordsNamed(log, "Request completed") = {}
    /\ pc = "completed"
         => /\ Cardinality(RecordsNamed(log, "Request started")) = 1
            /\ Cardinality(RecordsNamed(log, "Request completed")) = 1
            /\ IsStartRecord(log[1])
            /\ IsEndRecord(log[Len(log)])

\* C19 as stated: in every environment each request has exactly one start record
\* and, once its response is ready, exactly one end record after it with the same
\* method, path and trace id, the response's status and a duration.
C19_AsStated == StartThenEnd

\* C19 amended: in dev and stage each request has exactly one start record and is
\* eventually completed with exactly one end record after it (same method, path and
\* trace id, the response's status, a duration); in prd, whose level is WARNING, a
\* request is completed without any record.
C19_StartAndEndRecords ==
    /\ [](config.environment \in {"dev", "stage"} => StartThenEnd)
    /\ [](config.environment = "prd" => log = <<>>)
    /\ (pc = "started") ~> (pc = "completed")

\* in stage a health check has completed after one clock unit, with its two records
C19_Witness ==
    /\ config.environment = "stage"
    /\ pc = "completed" /\ http.path = "/health"
    /\ Len(log) = 2
    /\ IsStartRecord(log[1])
    /\ IsEndRecord(log[2])
    /\ log[2].status_code = 200
    /\ log[2].duration_ms = 1000

\* the records of an accepted review, per stage of its handling
FourInOrder ==
    (http.path = "/api/review"
     /\ (pc = "validated" \/ (pc \in {"responded", "completed"}
                              /\ response.status_code = 200)))
    => /\ pc = "validated" => Msgs(log) = <<"Request started">>
       /\ pc = "responded"
            => Msgs(log) = <<"Request started", "Code review requested",
                             "Code review completed">>
       /\ pc = "completed"
            => Msgs(log) = <<"Request started", "Code review requested",
                             "Code review completed", "Request completed">>
       /\ Len(log) >= 3
            => /\ log[2] = [msg |-> "Code review requested",
                            language |-> request.language,
                            code_length |-> StrLen(request.code)]
               /\ log[3] = [msg |-> "Code review completed",
                            language |-> request.language,
                            smells_count |-> 3]

\* C20 as stated: every accepted review leaves the four records in the order
\* request started, code review requested, code review completed, request
\* completed, the two review records once each between the other two.
C20_AsStated == FourInOrder

\* C20 amended: in dev and stage every accepted review leaves the four records in
\* that order, the two review records once each between the start and the end
\* record; in prd an accepted review leaves no record.
C20_FourRecordsInOrder ==
    /\ config.environment \in {"dev", "stage"} => FourInOrder
    /\ config.environment = "prd" => log = <<>>

\* in dev an accepted review of python code has completed with its four records
C20_Witness ==
    /\ config.environment = "dev"
    /\ pc = "completed" /\ http.path = "/api/review" /\ response.status_code = 200
    /\ Len(log) = 4
    /\ log[2].msg = "Code review requested" /\ log[2].code_length = max_code_length
    /\ log[3].msg = "Code review completed"
    /\ log[4].msg = "Request completed"

---------------------------------------------------------------------------
(* Properties of the formatter, the level filter and failing emission *)

\* the JSON objects the console handler wrote for the request in hand
Output == [i \in 1..Len(log) |-> Format(log[i])]

\* C21 as stated: in the formatter's output the record of a requested review has
\* the fields language and code_length with the request's language and the length
\* of its code, and the record of a completed review has the field smells_count.
C21_AsStated ==
    \A i \in 1..Len(log) :
       /\ log[i].msg = "Code review requested"
            => /\ {"language", "code_length"} \subseteq DOMAIN Output[i]
               /\ Output[i].language = request.language
               /\ Output[i].code_length = StrLen(request.code)
       /\ log[i].msg = "Code review completed"
            => /\ "smells_count" \in DOMAIN Output[i]
               /\ Output[i].smells_count = 3

\* the threshold of each environment: DEBUG, INFO, WARNING
Threshold(environment) ==
    CASE environment = "dev" -> 10
      [] environment = "stage" -> 20
      [] environment = "prd" -> 30

\* C22: a record is written if and only if its severity is at least the level of
\* the environment (DEBUG in dev, INFO in stage, WARNING in prd): for each severity,
\* and for the INFO records the requests write; API_HOST and API_PORT play no part.
C22_LevelFilter ==
    config # NoConfig
    => /\ \A l \in LevelNames :
            IsEnabled(l) <=> LevelNo(l) >= Threshold(config.environment)
       /\ pc \in {"started", "validated", "responded", "completed"}
            => (log # <<>> <=> 20 >= Threshold(config.environment))

\* in prd, started with API_HOST set, a request has completed without a record,
\* INFO being below WARNING
C22_Witness ==
    /\ config.environment = "prd"
    /\ environ.API_HOST = "127.0.0.1"
    /\ pc = "completed" /\ response.status_code = 200
    /\ log = <<>>
    /\ ~IsEnabled("INFO") /\ IsEnabled("WARNING")

\* the answer of a request when every record is written
Answer(h) ==
    CASE h.method = "GET" /\ h.path = "/" ->
           Response(200, [message |-> "Code-Sentinel API is running"])
      [] h.method = "GET" /\ h.path = "/health" ->
           Response(200, [status |-> "healthy"])
      [] OTHER -> Outcome(h.body)

\* C23 as stated: whether or not its records can be written, a request ends with
\* the status and body it has when they are written.
C23_AsStated ==
    pc \in {"responded", "completed", "failed"} => response = Answer(http)

---------------------------------------------------------------------------
(* Properties of the response models *)

\* v is a str of at least n code points
TextOfAtLeast(v, n) == v.t = "str" /\ Len(v.v) >= n

\* v is an int above 0, or a string of digits that converts to one
PositiveLine(v) ==
    \/ v.t = "int" /\ v.v > 0
    \/ v.t = "str" /\ IsDigits(v.v) /\ IntOfDigits(v.v) > 0

\* the fields of CodeSmell whose argument is absent or fails the field's constraint
ViolatedSmellFields(kw) ==
    { f \in {"type", "severity", "line", "message", "suggestion"} :
        CASE f = "type" -> ~TextOfAtLeast(kw.type, 3)
          [] f = "severity" ->
               ~(kw.severity.t = "str"
                 /\ kw.severity.v \in {<<108, 111, 119>>,
                                       <<109, 101, 100, 105, 117, 109>>,
                                       <<104, 105, 103, 104>>})
          [] f = "line" -> ~PositiveLine(kw.line)
          [] f = "message" -> ~TextOfAtLeast(kw.message, 5)
          [] f = "suggestion" -> ~TextOfAtLeast(kw.suggestion, 10) }

\* the locations of the errors raised
ErrorLocations(errors) == { errors[i].loc : i \in 1..Len(errors) }

\* C24: CodeSmell is constructed if and only if all five arguments are given and
\* each meets its constraint (type >= 3 code points, severity one of the three
\* words, line > 0, message >= 5, suggestion >= 10); the instance holds the values
\* as given, untrimmed; otherwise the errors are located at exactly the violated
\* fields, so the limits 3, 1, 5, 10 are accepted and 2, 0, 4, 9 rejected.
C24_SmellConstructible ==
    kwargs.model = "CodeSmell"
    => /\ built.ok <=> ViolatedSmellFields(kwargs) = {}
       /\ built.ok => /\ built.value.type = kwargs.type.v
                      /\ built.value.severity = kwargs.severity.v
                      /\ built.value.line > 0
                      /\ built.value.message = kwargs.message.v
                      /\ built.value.suggestion = kwargs.suggestion.v
       /\ ~built.ok => ErrorLocations(built.errors)
                         = { <<f>> : f \in ViolatedSmellFields(kwargs) }

\* a finding with every field at its limit, type and message made of blanks alone,
\* has been constructed
C24_Witness ==
    /\ kwargs.model = "CodeSmell"
    /\ kwargs.type = PyStr(<<32, 32, 32>>)
    /\ kwargs.severity = PyStr(<<108, 111, 119>>)
    /\ kwargs.line = PyInt(1)
    /\ kwargs.message = PyStr(<<32, 32, 32, 32, 32>>)
    /\ kwargs.suggestion = PyStr(Xs(10))
    /\ built.ok
    /\ built.value.type = <<32, 32, 32>>

\* smells is a list of at least one entry
HasFindings(kw) == kw.smells.t = "list" /\ Len(kw.smells.v) >= 1

\* every entry of smells is a finding or the arguments of one
FindingsValid(kw) ==
    \A i \in 1..Len(kw.smells.v) :
       \/ kw.smells.v[i].t = "CodeSmell"
       \/ kw.smells.v[i].t = "dict" /\ ViolatedSmellFields(kw.smells.v[i].v) = {}

\* C25 as stated: CodeReviewResponse is constructed if and only if smells has at
\* least one entry and summary has at least 10 code points.
C25_AsStated ==
    kwargs.model = "CodeReviewResponse"
    => (built.ok <=> (HasFindings(kwargs) /\ TextOfAtLeast(kwargs.summary, 10)))

\* C25 amended: CodeReviewResponse is constructed if and only if status is given as
\* a string, smells has at least one entry, each entry a valid finding, and summary
\* has at least 10 code points; an empty list is rejected with an error at smells, a
\* summary of 9 with an error at summary, one finding with a summary of 10 accepted.
C25_ResponseConstructible ==
    kwargs.model = "CodeReviewResponse"
    => /\ built.ok <=> /\ kwargs.status.t = "str"
                       /\ HasFindings(kwargs) /\ FindingsValid(kwargs)
                       /\ TextOfAtLeast(kwargs.summary, 10)
       /\ kwargs.smells = PyList(<<>>)
            => ~built.ok /\ <<"smells">> \in ErrorLocations(built.errors)
       /\ (kwargs.summary.t = "str" /\ Len(kwargs.summary.v) = 9)
            => ~built.ok /\ <<"summary">> \in ErrorLocations(built.errors)
       /\ kwargs.status.t # "str"
            => ~built.ok /\ <<"status">> \in ErrorLocations(built.errors)
       /\ built.ok => /\ Len(built.value.smells) = Len(kwargs.smells.v)
                      /\ built.value.summary = kwargs.summary.v

\* a response of one finding and a summary of 10 code points has been constructed
C25_Witness ==
    /\ kwargs.model = "CodeReviewResponse"
    /\ kwargs.status.t = "str"
    /\ kwargs.smells.t = "list" /\ Len(kwargs.smells.v) = 1
    /\ kwargs.summary = PyStr(Xs(10))
    /\ built.ok
    /\ Len(built.value.smells) = 1

\* C26: the handler is total over validated requests: whatever request passed
\* validation, review_code returns 200 with findings that each meet the constraints
\* of CodeSmell and a summary of at least 10 code points; no response validation
\* fails and no 5xx is answered.
C26_HandlerTotal ==
    /\ pc # "failed"
    /\ response.status_code < 500
    /\ pc = "validated" => ReviewResponse(request).status_code = 200
    /\ (pc \in {"responded", "completed"} /\ request # NoRequest)
         => /\ response.status_code = 200
            /\ Len(response.body.smells) >= 1
            /\ \A i \in 1..Len(response.body.smells) :
                 LET smell == response.body.smells[i] IN
                 /\ Len(smell.type) >= 3
                 /\ smell.severity \in {<<108, 111, 119>>,
                                        <<109, 101, 100, 105, 117, 109>>,
                                        <<104, 105, 103, 104>>}
                 /\ smell.line > 0
                 /\ Len(smell.message) >= 5
                 /\ Len(smell.suggestion) >= 10
            /\ Len(response.body.summary) >= 10

\* a request of 100000 code points with the empty language has been answered 200
C26_Witness ==
    /\ pc = "responded"
    /\ request # NoRequest
    /\ request.language = <<>>
    /\ StrLen(request.code) = 100000
    /\ response.status_code = 200
    /\ Len(response.body.summary) >= 10

---------------------------------------------------------------------------
(* Properties of the CORS options, the duration, the trace id, the environment *)

C28_AsStated ==
    \A i \in 1..Len(log) :
       log[i].msg = "Request completed" => log[i].duration_ms >= 0

\* C29 as stated: two requests in flight together have different trace ids.
C29_AsStated ==
    \A i, j \in Tasks :
       (i # j /\ tasks[i].pc \notin {"idle"} /\ tasks[j].pc \notin {"idle"})
       => tasks[i].request_id # tasks[j].request_id

\* the answer to a review body, written without reference to the configuration
EnvironmentFreeOutcome(body) ==
    IF BodyErrors(body) # <<>> THEN Response(422, [detail |-> BodyErrors(body)])
    ELSE Response(200, [status |-> "success",
                        smells |-> MockSmells,
                        summary |-> Summary(ParseRequest(body), MockSmells)])

=============================================================================
